---- MODULE Spec2Model ----
(***************************************************************************)
(* Session lifecycle and request routing of the Open Horizon MCP server.   *)
(*                                                                         *)
(* The model follows the Express application of the server module: the     *)
(* process-wide `sessions` table, the route table in registration order,   *)
(* the POST /mcp handler with its suspension point at                      *)
(* `await server.connect(transport)`, the two closures handed to the       *)
(* transport (onsessioninitialized, onclose) and the GET/DELETE handlers.  *)
(*                                                                         *)
(* The streamable-HTTP transport is a library object.  It is modelled by   *)
(* what the server module relies on: handleRequest either refuses a        *)
(* request or, for an initialize message on a fresh transport, takes its   *)
(* session id from sessionIdGenerator and fires onsessioninitialized; and  *)
(* it may signal closure (onclose) at any time after construction.         *)
(*                                                                         *)
(* Identifiers come from randomUUID(): they are modelled as fresh values   *)
(* that a client can only name after a response has disclosed them.        *)
(***************************************************************************)
EXTENDS Integers, Sequences, FiniteSets, TLC

VARIABLES
    sessions,    \* own properties of the `sessions` object: id -> SessionEntry
    handlers,    \* POST handlers that took the initialization branch, in order
    transports,  \* the transport constructed by each of those handlers
    servers,     \* the McpServer constructed by each of those handlers
    disclosed,   \* session ids a response has carried back to a client
    writes,      \* every entry ever assigned to sessions[id], per id
    last,        \* the most recent finished HTTP exchange
    tool         \* the latest call of ToolExchange.toolCallback

routerVars == <<sessions, handlers, transports, servers, disclosed, writes, last>>

vars == <<sessions, handlers, transports, servers, disclosed, writes, last, tool>>

\* Number of initialization requests explored.
MaxInit == 2

----------------------------------------------------------------------------
\* Values

Undefined == "<undefined>"
NoHeader == "<absent>"
EmptyString == ""

\* randomUUID(): the pool the fresh identifiers are drawn from.
UuidNames == <<"u1", "u2", "u3", "u4">>
Uuids == {UuidNames[i] : i \in 1..MaxInit}

\* Property names every plain object inherits from Object.prototype.
ObjectPrototypeKeys == {"constructor"}

\* A well-formed id that no initialization ever generated.
ForeignIds == {"x9"}

\* Request bodies after express.json(): an initialize request, another
\* JSON-RPC message, and a JSON value that is no JSON-RPC message.
Bodies == {"initialize", "call", "garbage"}

isInitializeRequest(body) == body = "initialize"

\* JavaScript truthiness of the values a header or a property read can give.
Truthy(v) == v \notin {Undefined, NoHeader, EmptyString}

\* const sessionId = typeof h === 'string' ? h : Array.isArray(h) ? h[0] : undefined
SessionIdOf(h) == IF h = NoHeader THEN Undefined ELSE h

\* Mutant of SessionsGet: the key is ignored and the first entry is returned.
SessionsGetFirst(S, key) ==
    IF DOMAIN S # {}
    THEN [kind |-> "entry", entry |-> S[CHOOSE k \in DOMAIN S : TRUE]]
    ELSE [kind |-> "undefined"]

\* sessions[key]: an own property, else what the prototype chain gives.
SessionsGet(S, key) ==
    IF key \in DOMAIN S THEN [kind |-> "entry", entry |-> S[key]]
    ELSE IF key \in ObjectPrototypeKeys THEN [kind |-> "inherited"]
    ELSE [kind |-> "undefined"]

SessionsTruthy(S, key) == SessionsGet(S, key).kind # "undefined"

\* Mutant of SessionsPut: the assignment is lost.
SessionsPutDropped(S, key, entry) == S

\* sessions[key] = entry
SessionsPut(S, key, entry) ==
    [k \in DOMAIN S \cup {key} |-> IF k = key THEN entry ELSE S[k]]

\* delete sessions[key]
SessionsDelete(S, key) == [k \in DOMAIN S \ {key} |-> S[k]]

NoHeaders == [sid |-> Undefined, accept |-> FALSE, captured |-> FALSE]

\* {...req.headers}
CaptureHeaders(h, accept) == [sid |-> h, accept |-> accept, captured |-> TRUE]

\* sessions[newSessionId] = { server, transport }
ExplicitEntry(i) == [server |-> i, transport |-> i, latestHeaders |-> NoHeaders]

\* Mutant of CallbackEntry: the callback stores a protocol handler of its own.
CallbackEntryNewServer(i) ==
    [server |-> 0, transport |-> i, latestHeaders |-> handlers[i].initialHeaders]

\* sessions[sid] = { server, transport, latestHeaders: initialHeaders }
CallbackEntry(i) ==
    [server |-> i, transport |-> i, latestHeaders |-> handlers[i].initialHeaders]

\* Mutant of NewUuids: the generator may return an identifier again.
NewUuidsAny(used) == {UuidNames[1]}

\* randomUUID(): a value no earlier call returned.  The identifiers are
\* interchangeable, so the first unused name of the pool stands for it.
NewUuids(used) ==
    LET fresh == {n \in 1..MaxInit : UuidNames[n] \notin used}
    IN  {UuidNames[n] : n \in {m \in fresh : \A o \in fresh : m <= o}}

UsedUuids == {handlers[i].newSessionId : i \in DOMAIN handlers}

LogWrite(W, key, entry) ==
    [k \in DOMAIN W \cup {key} |->
        IF k = key THEN (IF k \in DOMAIN W THEN W[k] ELSE {}) \cup {entry}
        ELSE W[k]]

----------------------------------------------------------------------------
\* Express routing: handlers of a path run in registration order, and a
\* handler that answers without calling next() ends the chain.

\* Mutant of Routes: handleSessionRequest is registered before the 405 handlers.
RoutesSessionFirst ==
    << [method |-> "GET",    path |-> "/mcp", handler |-> "handleSessionRequest"],
       [method |-> "DELETE", path |-> "/mcp", handler |-> "handleSessionRequest"],
       [method |-> "GET",    path |-> "/mcp", handler |-> "methodNotAllowed"],
       [method |-> "DELETE", path |-> "/mcp", handler |-> "methodNotAllowed"],
       [method |-> "POST",   path |-> "/mcp", handler |-> "post"] >>

Routes ==
    << [method |-> "GET",    path |-> "/mcp", handler |-> "methodNotAllowed"],
       [method |-> "DELETE", path |-> "/mcp", handler |-> "methodNotAllowed"],
       [method |-> "POST",   path |-> "/mcp", handler |-> "post"],
       [method |-> "GET",    path |-> "/mcp", handler |-> "handleSessionRequest"],
       [method |-> "DELETE", path |-> "/mcp", handler |-> "handleSessionRequest"] >>

RouteMatches(r, method, path) == r.method = method /\ r.path = path

FirstHandler(method, path) ==
    LET hit == SelectSeq(Routes, LAMBDA r : RouteMatches(r, method, path))
    IN  IF hit = <<>> THEN "none" ELSE hit[1].handler

----------------------------------------------------------------------------
\* The finished exchange.  `by` says who produced the response: "router" (the
\* server module), "transport" (the request was forwarded), "express" (no
\* route matched) or "threw" (the handler's promise rejected).

Exchange(method, path, h, body, by, status, code, allow, t, i, known) ==
    [method |-> method, path |-> path, sid |-> h,
     body |-> body, by |-> by, status |-> status, code |-> code,
     allow |-> allow, transport |-> t, handler |-> i, inRegistry |-> known]

----------------------------------------------------------------------------
\* transport.handleRequest(req, res, req.body) for a POST, on transport t,
\* starting from table S and write log W.

TransportHandlePost(t, S, W, hdr, body) ==
    LET tr   == transports[t]
        same == [sessions |-> S, writes |-> W, tr |-> tr, discloses |-> {}]
    IN
    IF ~hdr.accept THEN
        same @@ [status |-> 406, code |-> -32000]
    ELSE IF body = "garbage" THEN
        same @@ [status |-> 400, code |-> -32700]
    ELSE IF isInitializeRequest(body) THEN
        IF tr.initialized /\ tr.sessionId # Undefined THEN
            same @@ [status |-> 400, code |-> -32600]
        ELSE
            \* sessionIdGenerator: () => newSessionId, then onsessioninitialized(sid)
            LET sid == handlers[t].newSessionId IN
            [sessions  |-> SessionsPut(S, sid, CallbackEntry(t)),
             writes    |-> LogWrite(W, sid, CallbackEntry(t)),
             tr        |-> [tr EXCEPT !.sessionId = sid, !.initialized = TRUE],
             discloses |-> {sid},
             status    |-> 200,
             code      |-> 0]
    ELSE IF ~tr.initialized THEN
        same @@ [status |-> 400, code |-> -32000]
    ELSE IF SessionIdOf(hdr.sid) # tr.sessionId THEN
        same @@ [status |-> 404, code |-> -32001]
    ELSE
        same @@ [status |-> 200, code |-> 0]

----------------------------------------------------------------------------
\* The tool dispatcher (ToolExchange) and the resource client (makeHttpRequest).
\* Texts are sequences of string pieces, so that a template literal keeps
\* the values it interpolates; URLs are sequences of path segments.

EXCHANGE_URL == "$EXCHANGE_URL"
ORG == "$ORG"

Actions == {"list", "details", "create", "delete", "status", "update"}
Targets == {"service", "node", "policy", "deployment"}
PolicyTypes == {Undefined, "node", "service", "deployment"}
Names == {Undefined, "edge-1", "edge-2"}
Datas == {Undefined, "payload"}

\* `${v}` in a template literal
Str(v) == IF v = Undefined THEN "undefined" ELSE v

\* `${target}s`
Plural(target) ==
    CASE target = "service" -> "services"
      [] target = "node" -> "nodes"
      [] target = "policy" -> "policys"
      [] OTHER -> "deployments"

\* { content: [{ type: 'text', text }] }
Envelope(text) == [content |-> << [type |-> "text", text |-> text] >>]

\* A thrown or passed value: an Error object with a message, or a string.
ErrorObject(message) == [isError |-> TRUE, message |-> message]
StringValue(text) == [isError |-> FALSE, message |-> text]

\* getErrorMessage(err)
getErrorMessage(err) ==
    IF err.isError
    THEN Envelope(<<"Error fetching data: ">> \o err.message)
    ELSE Envelope(<<"An unknown error occurred.">>)

\* What the remote API can answer to one fetch: a 2xx with a JSON object
\* (one of them with a top-level `content` field), a non-2xx status, a 2xx
\* whose body is no JSON, or a transport-level failure.
BodyPolicies == [policies |-> << >>]
BodyWithContent == [content |-> << [id |-> "remote"] >>]
RemoteOutcomes ==
    { [kind |-> "ok", body |-> BodyPolicies],
      [kind |-> "ok", body |-> BodyWithContent],
      [kind |-> "status", status |-> "404", statusText |-> "Not Found"],
      [kind |-> "badjson", message |-> "Unexpected token"],
      [kind |-> "failed", message |-> "fetch failed"] }

\* JSON.stringify(response, null, 2)
Stringify(body) ==
    IF body = BodyPolicies THEN "{\"policies\": []}"
    ELSE "{\"content\": [{\"id\": \"remote\"}]}"

\* makeHttpRequest(url, headers), once its single fetch has settled.
makeHttpRequest(outcome) ==
    CASE outcome.kind = "ok" -> outcome.body
      [] outcome.kind = "status" ->
            getErrorMessage(StringValue(
                <<"Error fetching data: ", outcome.status, " ", outcome.statusText>>))
      [] OTHER ->
            getErrorMessage(StringValue(<<"Error fetching data: ", outcome.message>>))

\* What a function of the dispatcher does up to its first await: it returns
\* a value, throws, or awaits makeHttpRequest(url) in function fn.
Return(value) == [kind |-> "return", value |-> value]
Throw(err) == [kind |-> "throw", error |-> err]
Fetch(fn, url) == [kind |-> "fetch", fn |-> fn, url |-> url]

\* listResources(target, name, policyType)
listResources(target, name, policyType) ==
    IF target \notin {"service", "node", "policy"} THEN
        Throw(ErrorObject(<<"Invalid target type: ", Str(target)>>))
    ELSE IF target = "policy" THEN
        IF policyType = "node" THEN
            IF ~Truthy(name)
            THEN Return(Envelope(<<"Details for ", Str(target), " named ", Str(name)>>))
            ELSE Fetch("listResources",
                       <<EXCHANGE_URL, ORG, "business", "policies", "nodes",
                         Str(name), "policy">>)
        ELSE Fetch("listResources", <<EXCHANGE_URL, ORG, "business", "policies">>)
    ELSE Fetch("listResources", <<EXCHANGE_URL, ORG, Plural(target)>>)

\* Mutant of CoerceTarget: the target is left as it was supplied.
CoerceTargetNever(target, policyType) == target

\* if (policyType && target !== 'policy') target = 'policy'
CoerceTarget(target, policyType) ==
    IF Truthy(policyType) /\ target # "policy" THEN "policy" ELSE target

\* getResourceDetails(target, name, policyType)
getResourceDetails(target0, name, policyType) ==
    LET target == CoerceTarget(target0, policyType) IN
    IF target = "policy" THEN
        IF policyType = "node" THEN
            IF ~Truthy(name)
            THEN Return(Envelope(<<"Details for ", Str(target), " named ", Str(name)>>))
            ELSE Fetch("getResourceDetails",
                       <<EXCHANGE_URL, ORG, "nodes", Str(name), "policy">>)
        ELSE IF policyType = "service" THEN
            IF ~Truthy(name)
            THEN Return(Envelope(<<"Details for ", Str(policyType), " ", Str(target),
                                   " name is required">>))
            ELSE Fetch("getResourceDetails",
                       <<EXCHANGE_URL, ORG, "business", "policies", Str(name)>>)
        ELSE IF policyType = "deployment" THEN
            IF ~Truthy(name)
            THEN Return(Envelope(<<"Details for ", Str(policyType), " ", Str(target),
                                   " name is required">>))
            ELSE Fetch("getResourceDetails",
                       <<EXCHANGE_URL, ORG, "services", Str(name), "policy">>)
        ELSE Fetch("getResourceDetails", <<EXCHANGE_URL, ORG, "business", "policies">>)
    ELSE IF target = "service" THEN
        IF ~Truthy(name)
        THEN Return(Envelope(<<"Details for ", Str(target), " named ", Str(name)>>))
        ELSE Fetch("getResourceDetails", <<EXCHANGE_URL, ORG, "services", Str(name)>>)
    ELSE IF target = "node" THEN
        Fetch("getResourceDetails", <<EXCHANGE_URL, ORG, "node-details">>)
    ELSE
        Fetch("getResourceDetails", <<EXCHANGE_URL, ORG, Plural(target)>>)

\* createResource(target, data)
createResource(target, data) ==
    Return(Envelope(<<"Created ", Str(target), " with provided data">>))

\* deleteResource(target, name)
deleteResource(target, name) ==
    Return(Envelope(<<"Deleted ", Str(target), " named ", Str(name)>>))

\* Mutant of getResourceStatus: the remote status is fetched for every target.
getResourceStatusAlways(target, name) ==
    Fetch("getResourceStatus",
          <<EXCHANGE_URL, ORG, Plural(target), Str(name), "status">>)

\* Mutant of getResourceStatus: one node name is served from another endpoint.
getResourceStatusByName(target, name) ==
    IF target = "node"
    THEN IF name = "edge-2"
         THEN Fetch("getResourceStatus", <<EXCHANGE_URL, ORG, "node-details">>)
         ELSE Fetch("getResourceStatus",
                    <<EXCHANGE_URL, ORG, "nodes", Str(name), "status">>)
    ELSE Return(Envelope(<<"Status for ", Str(target), " named ", Str(name)>>))

\* getResourceStatus(target, name)
getResourceStatus(target, name) ==
    IF target = "node"
    THEN Fetch("getResourceStatus", <<EXCHANGE_URL, ORG, "nodes", Str(name), "status">>)
    ELSE Return(Envelope(<<"Status for ", Str(target), " named ", Str(name)>>))

\* Mutant of NameMissing: the check is skipped.
NameMissingNever(name) == FALSE

\* if (!name) return getErrorMessage("Name is required for ... action")
NameMissing(name) == ~Truthy(name)

\* if (!data) return getErrorMessage("Data is required for create action")
DataMissing(data) == ~Truthy(data)

\* toolCallback(params), up to its first await.
toolCallback(p) ==
    CASE p.action = "list" -> listResources(p.target, p.name, p.policyType)
      [] p.action = "details" ->
            IF NameMissing(p.name)
            THEN Return(getErrorMessage(StringValue(
                     <<"Name is required for details action">>)))
            ELSE getResourceDetails(p.target, p.name, p.policyType)
      [] p.action = "create" ->
            IF DataMissing(p.data)
            THEN Return(getErrorMessage(StringValue(
                     <<"Data is required for create action">>)))
            ELSE createResource(p.target, p.data)
      [] p.action = "delete" ->
            IF NameMissing(p.name)
            THEN Return(getErrorMessage(StringValue(
                     <<"Name is required for delete action">>)))
            ELSE deleteResource(p.target, p.name)
      [] p.action = "status" ->
            IF NameMissing(p.name)
            THEN Return(getErrorMessage(StringValue(
                     <<"Name is required for status action">>)))
            ELSE getResourceStatus(p.target, p.name)
      [] OTHER ->
            Return(getErrorMessage(StringValue(<<"Unknown action: ", Str(p.action)>>)))

\* Mutant of AfterFetch: every function wraps whatever the client returned.
AfterFetchWrapAll(fn, response) ==
    IF "content" \in DOMAIN response
    THEN Envelope(<<"Error fetching data: ", "request failed">>)
    ELSE Envelope(<<Stringify(response)>>)

\* The rest of the awaiting function once makeHttpRequest has returned:
\* listResources wraps what has no `content`, the others return it as it is.
AfterFetch(fn, response) ==
    IF fn = "listResources" THEN
        IF "content" \in DOMAIN response
        THEN response
        ELSE Envelope(<<Stringify(response)>>)
    ELSE response

NoParams ==
    [action |-> "none", target |-> "none", name |-> Undefined,
     policyType |-> Undefined, data |-> Undefined]

NoOutcome == [kind |-> "none"]
NoResult == [pending |-> TRUE]

ToolIdle ==
    [phase |-> "idle", params |-> NoParams, fn |-> "none", calls |-> << >>,
     fetches |-> << >>, outcome |-> NoOutcome, result |-> NoResult]

----------------------------------------------------------------------------
Init ==
    /\ sessions = << >>
    /\ handlers = << >>
    /\ transports = << >>
    /\ servers = << >>
    /\ disclosed = {}
    /\ writes = << >>
    /\ last = [method |-> "none", path |-> "none", sid |-> NoHeader,
               body |-> "none", by |-> "none", status |-> 0, code |-> 0,
               allow |-> "none", transport |-> 0, handler |-> 0,
               inRegistry |-> FALSE]
    /\ tool = ToolIdle

\* What a client can put in the mcp-session-id header.
ClientHeaders ==
    {NoHeader} \cup ForeignIds \cup ObjectPrototypeKeys \cup disclosed

\* POST /mcp, case 1: sessionId && sessions[sessionId]
PostExisting(h, body, accept) ==
    LET sessionId == SessionIdOf(h)
        got == SessionsGet(sessions, sessionId)
    IN
    /\ Truthy(sessionId) /\ SessionsTruthy(sessions, sessionId)
    /\ IF got.kind = "entry" THEN
          LET t == got.entry.transport
              r == TransportHandlePost(t, sessions, writes,
                                       CaptureHeaders(h, accept), body)
          IN  /\ sessions' = r.sessions
              /\ writes' = r.writes
              /\ transports' = [transports EXCEPT ![t] = r.tr]
              /\ disclosed' = disclosed \cup r.discloses
              /\ last' = Exchange("POST", "/mcp", h, body, "transport",
                                  r.status, r.code, "none", t, 0, TRUE)
       ELSE
          \* sessionEntry is an inherited property: sessionEntry.transport is
          \* undefined and reading handleRequest from it throws a TypeError.
          /\ last' = Exchange("POST", "/mcp", h, body, "threw",
                              0, 0, "none", 0, 0, FALSE)
          /\ UNCHANGED <<sessions, writes, transports, disclosed>>
    /\ UNCHANGED <<handlers, servers, tool>>

\* POST /mcp, case 2 up to `await server.connect(transport)`.
PostInitialize(h, body, accept, uuid) ==
    LET sessionId == SessionIdOf(h)
        i == Len(handlers) + 1
    IN
    /\ ~(Truthy(sessionId) /\ SessionsTruthy(sessions, sessionId))
    /\ ~Truthy(h) /\ isInitializeRequest(body)
    /\ Len(handlers) < MaxInit
    /\ uuid \in NewUuids(UsedUuids)
    /\ handlers' = Append(handlers,
            [newSessionId |-> uuid,
             initialHeaders |-> CaptureHeaders(h, accept),
             body |-> body,
             pc |-> "connecting",
             steps |-> <<"randomUUID", "newTransport", "createMcpServer", "connect">>])
    /\ transports' = Append(transports,
            [sessionId |-> Undefined, initialized |-> FALSE, closed |-> FALSE])
    /\ servers' = Append(servers,
            [initialHeaders |-> CaptureHeaders(h, accept), transport |-> i])
    /\ UNCHANGED <<sessions, disclosed, writes, last, tool>>

\* POST /mcp, case 2 after the await: register, read back, forward.
PostInitializeResume(i) ==
    /\ i \in DOMAIN handlers
    /\ handlers[i].pc = "connecting"
    /\ LET me  == handlers[i]
           S1  == SessionsPut(sessions, me.newSessionId, ExplicitEntry(i))
           W1  == LogWrite(writes, me.newSessionId, ExplicitEntry(i))
           got == SessionsGet(S1, me.newSessionId)
       IN
       /\ handlers' = [handlers EXCEPT ![i].pc = "done",
                          ![i].steps = me.steps \o <<"register", "forward">>]
       /\ IF got.kind = "entry" /\ got.entry.transport \in DOMAIN transports THEN
             LET t == got.entry.transport
                 r == TransportHandlePost(t, S1, W1, me.initialHeaders, me.body)
             IN  /\ sessions' = r.sessions
                 /\ writes' = r.writes
                 /\ transports' = [transports EXCEPT ![t] = r.tr]
                 /\ disclosed' = disclosed \cup r.discloses
                 /\ last' = Exchange("POST", "/mcp", me.initialHeaders.sid, me.body,
                                     "transport", r.status, r.code, "none", t, i,
                                     FALSE)
          ELSE
             /\ sessions' = S1
             /\ writes' = W1
             /\ last' = Exchange("POST", "/mcp", me.initialHeaders.sid, me.body,
                                 "threw", 0, 0, "none", 0, i, FALSE)
             /\ UNCHANGED <<transports, disclosed>>
    /\ UNCHANGED <<servers, tool>>

\* POST /mcp, case 3: neither a valid session nor an initialize request.
PostReject(h, body) ==
    LET sessionId == SessionIdOf(h) IN
    /\ ~(Truthy(sessionId) /\ SessionsTruthy(sessions, sessionId))
    /\ ~(~Truthy(h) /\ isInitializeRequest(body))
    /\ last' = Exchange("POST", "/mcp", h, body, "router", 400, -32000, "none",
                        0, 0, FALSE)
    /\ UNCHANGED <<sessions, handlers, transports, servers, disclosed, writes, tool>>

\* transport.onclose: the transport signals closure.
TransportClose(t) ==
    /\ t \in DOMAIN transports
    /\ ~transports[t].closed
    /\ LET sid == transports[t].sessionId IN
       sessions' = IF Truthy(sid) /\ SessionsTruthy(sessions, sid)
                   THEN SessionsDelete(sessions, sid)
                   ELSE sessions
    /\ transports' = [transports EXCEPT ![t].closed = TRUE]
    /\ UNCHANGED <<handlers, servers, disclosed, writes, last, tool>>

\* GET /mcp and DELETE /mcp: the first handler registered for the route runs.
SessionChannel(method, h) ==
    LET first == FirstHandler(method, "/mcp")
        sessionId == SessionIdOf(h)
        known == h \in DOMAIN sessions
    IN
    /\ method \in {"GET", "DELETE"}
    /\ CASE first = "methodNotAllowed" ->
              last' = Exchange(method, "/mcp", h, "none", "router", 405, 0, "POST",
                               0, 0, known)
         [] first = "handleSessionRequest" ->
              IF ~Truthy(sessionId) \/ ~SessionsTruthy(sessions, sessionId) THEN
                  last' = Exchange(method, "/mcp", h, "none", "router", 400, 0,
                                   "none", 0, 0, known)
              ELSE IF SessionsGet(sessions, sessionId).kind = "entry" THEN
                  last' = Exchange(method, "/mcp", h, "none", "transport", 200, 0,
                                   "none",
                                   SessionsGet(sessions, sessionId).entry.transport,
                                   0, known)
              ELSE
                  last' = Exchange(method, "/mcp", h, "none", "threw", 0, 0,
                                   "none", 0, 0, known)
         [] OTHER ->
              last' = Exchange(method, "/mcp", h, "none", "express", 404, 0,
                               "none", 0, 0, known)
    /\ UNCHANGED <<sessions, handlers, transports, servers, disclosed, writes, tool>>

\* GET /health: no route of the application matches it.
Health ==
    LET first == FirstHandler("GET", "/health") IN
    /\ last' = IF first = "none"
               THEN Exchange("GET", "/health", NoHeader, "none", "express", 404, 0,
                             "none", 0, 0, FALSE)
               ELSE Exchange("GET", "/health", NoHeader, "none", "router", 200, 0,
                             "none", 0, 0, FALSE)
    /\ UNCHANGED <<sessions, handlers, transports, servers, disclosed, writes, tool>>

\* The parameters a caller can hand to toolCallback.
ToolParams ==
    [action : Actions, target : Targets, name : Names,
     policyType : PolicyTypes, data : Datas]

\* toolCallback(params) runs until it returns, throws, or awaits the fetch
\* that makeHttpRequest issues for the URL it was given.
ToolCall(p) ==
    /\ tool.phase # "awaiting"
    /\ LET step == toolCallback(p) IN
       tool' =
         CASE step.kind = "return" ->
                [phase |-> "returned", params |-> p, fn |-> "none",
                 calls |-> << >>, fetches |-> << >>, outcome |-> NoOutcome,
                 result |-> step.value]
           [] step.kind = "throw" ->
                [phase |-> "threw", params |-> p, fn |-> "none",
                 calls |-> << >>, fetches |-> << >>, outcome |-> NoOutcome,
                 result |-> step.error]
           [] OTHER ->
                [phase |-> "awaiting", params |-> p, fn |-> step.fn,
                 calls |-> <<step.url>>, fetches |-> <<step.url>>,
                 outcome |-> NoOutcome, result |-> NoResult]
    /\ UNCHANGED routerVars

\* Mutant of FetchSettle: a fetch that failed at transport level is issued
\* once more.
FetchSettleRetry(outcome) ==
    /\ tool.phase = "awaiting"
    /\ tool' = IF outcome.kind = "failed" /\ Len(tool.fetches) < 2
               THEN [tool EXCEPT !.fetches = Append(@, tool.calls[1])]
               ELSE [tool EXCEPT !.phase = "returned",
                                 !.outcome = outcome,
                                 !.result = AfterFetch(tool.fn, makeHttpRequest(outcome))]
    /\ UNCHANGED routerVars

\* The fetch settles: makeHttpRequest returns and the awaiting function
\* finishes; nothing is fetched again.
FetchSettle(outcome) ==
    /\ tool.phase = "awaiting"
    /\ tool' = [tool EXCEPT !.phase = "returned",
                            !.outcome = outcome,
                            !.result = AfterFetch(tool.fn, makeHttpRequest(outcome))]
    /\ UNCHANGED routerVars

Next ==
    \/ \E h \in ClientHeaders, body \in Bodies, accept \in BOOLEAN :
          PostExisting(h, body, accept)
    \/ \E h \in ClientHeaders, body \in Bodies, accept \in BOOLEAN, u \in Uuids :
          PostInitialize(h, body, accept, u)
    \/ \E i \in 1..MaxInit : PostInitializeResume(i)
    \/ \E h \in ClientHeaders, body \in Bodies : PostReject(h, body)
    \/ \E t \in 1..MaxInit : TransportClose(t)
    \/ \E m \in {"GET", "DELETE"}, h \in ClientHeaders : SessionChannel(m, h)
    \/ Health

Spec == Init /\ [][Next]_vars

NextTool ==
    \/ \E p \in ToolParams : ToolCall(p)
    \/ \E o \in RemoteOutcomes : FetchSettle(o)

SpecTool == Init /\ [][NextTool]_vars

----------------------------------------------------------------------------
\* Properties

\* A step that finishes an exchange.  (An exchange equal to the one before
\* it that changes nothing is a stuttering step; GET /health, always
\* possible, separates any two exchanges.)
IsExchangeStep == last' # last

\* C1: a POST /mcp that (a) carries no session id and whose body is not an
\* initialize request, or (b) carries a session id that is not in the
\* registry, is answered by the router with status 400 and error.code -32000,
\* is forwarded to no transport and leaves the registry as it was.
C1_PostWithoutValidSessionIsRejected ==
    [][ ( /\ IsExchangeStep
          /\ last'.method = "POST"
          /\ last'.handler = 0
          /\ \/ ~Truthy(last'.sid) /\ ~isInitializeRequest(last'.body)
             \/ Truthy(last'.sid) /\ last'.sid \notin DOMAIN sessions )
        => ( /\ last'.by = "router"
             /\ last'.status = 400
             /\ last'.code = -32000
             /\ last'.transport = 0
             /\ sessions' = sessions
             /\ transports' = transports ) ]_vars

\* C2: an initiation runs randomUUID, the construction of the transport and
\* of the protocol handler, connect, the registration and the forwarding in
\* this order; the transport it is forwarded to is the one this request
\* constructed, bound to the generated identifier, connected to this
\* request's protocol handler and registered under the identifier.
C2_InitiationOrder ==
    /\ \A i \in DOMAIN handlers :
          /\ handlers[i].pc = "connecting" =>
                /\ handlers[i].steps =
                      <<"randomUUID", "newTransport", "createMcpServer", "connect">>
                /\ handlers[i].newSessionId \notin DOMAIN writes
          /\ handlers[i].pc = "done" =>
                /\ handlers[i].steps =
                      <<"randomUUID", "newTransport", "createMcpServer", "connect",
                        "register", "forward">>
                /\ ExplicitEntry(i) \in writes[handlers[i].newSessionId]
          /\ servers[i].transport = i
          /\ transports[i].sessionId \in {Undefined, handlers[i].newSessionId}
    /\ last.handler # 0 =>
          /\ last.by = "transport"
          /\ last.transport = last.handler
          /\ handlers[last.handler].pc = "done"

C2_Witness ==
    /\ Len(handlers) = 2
    /\ last.handler = 2
    /\ last.by = "transport"
    /\ last.status = 200
    /\ handlers[1].newSessionId \in DOMAIN sessions

\* C3: a POST /mcp naming a registered session id is forwarded to the
\* transport stored under exactly that id, the response is the transport's,
\* and the step creates no session and leaves the registry unchanged.
C3_BoundPostIsForwarded ==
    [][ ( /\ IsExchangeStep
          /\ last'.method = "POST"
          /\ last'.handler = 0
          /\ last'.sid \in DOMAIN sessions )
        => ( /\ last'.by = "transport"
             /\ last'.transport = sessions[last'.sid].transport
             /\ handlers[last'.transport].newSessionId = last'.sid
             /\ sessions' = sessions
             /\ handlers' = handlers
             /\ servers' = servers
             /\ Len(transports') = Len(transports) ) ]_vars

C3_Witness ==
    /\ Len(handlers) = 2
    /\ Cardinality(DOMAIN sessions) = 2
    /\ last.method = "POST"
    /\ last.handler = 0
    /\ last.by = "transport"
    /\ last.status = 200
    /\ last.sid = handlers[2].newSessionId

\* C4: once the transport of a session that was put in the registry has
\* signalled closure, the registry has no entry under the session's
\* identifier, so that a POST naming it takes the unknown-session branch,
\* at whatever point of the session's life the closure happened.
C4_ClosedSessionIsRemoved ==
    \A i \in DOMAIN handlers :
        (handlers[i].pc = "done" /\ transports[i].closed)
            => ~SessionsTruthy(sessions, handlers[i].newSessionId)

\* C5: initiations obtain pairwise different identifiers, and the entry
\* found under an identifier holds the protocol handler and the transport
\* created by the initiation that generated that identifier.
C5_DistinctIdsOwnEntry ==
    /\ \A i, j \in DOMAIN handlers :
          i # j => handlers[i].newSessionId # handlers[j].newSessionId
    /\ \A k \in DOMAIN sessions :
          \E i \in DOMAIN handlers :
              /\ handlers[i].newSessionId = k
              /\ sessions[k].server = i
              /\ sessions[k].transport = i

C5_Witness ==
    /\ Len(handlers) = 2
    /\ handlers[1].pc = "connecting"
    /\ handlers[2].pc = "done"
    /\ handlers[2].newSessionId \in DOMAIN sessions

\* C6: the registry holds one entry per identifier, no two identifiers
\* share a transport, and every entry ever assigned under an identifier, by
\* the explicit assignment or by the session-initialized callback, holds the
\* same protocol handler and the same transport.
C6_NoRebinding ==
    /\ \A k \in DOMAIN writes :
          \A e1, e2 \in writes[k] :
              e1.server = e2.server /\ e1.transport = e2.transport
    /\ \A k \in DOMAIN sessions : sessions[k] \in writes[k]
    /\ \A k1, k2 \in DOMAIN sessions :
          sessions[k1].transport = sessions[k2].transport => k1 = k2

C6_Witness ==
    \E k \in DOMAIN sessions :
        /\ Cardinality(writes[k]) = 2
        /\ sessions[k].latestHeaders.captured

\* C7: a GET or DELETE on /mcp naming a registered session id is forwarded
\* to the transport bound to that session and not answered by the router.
C7_SessionChannelIsForwarded ==
    ( /\ last.method \in {"GET", "DELETE"}
      /\ last.path = "/mcp"
      /\ last.inRegistry )
    => ( /\ last.by = "transport"
         /\ last.transport \in DOMAIN handlers
         /\ handlers[last.transport].newSessionId = last.sid )

\* C8: a GET or DELETE on /mcp whose session id is absent or not in the
\* registry is answered with status 400, is forwarded to no transport and
\* leaves the registry unchanged.
C8_SessionChannelRejects400 ==
    [][ ( /\ IsExchangeStep
          /\ last'.method \in {"GET", "DELETE"}
          /\ last'.path = "/mcp"
          /\ last'.sid \notin DOMAIN sessions )
        => ( /\ last'.status = 400
             /\ last'.transport = 0
             /\ sessions' = sessions ) ]_vars

\* C9: a GET or DELETE on /mcp without a session header is answered with
\* status 405 and the header Allow: POST.
C9_NoHeaderIs405 ==
    ( /\ last.method \in {"GET", "DELETE"}
      /\ last.path = "/mcp"
      /\ last.sid = NoHeader )
    => ( last.status = 405 /\ last.allow = "POST" )

C9_Witness ==
    /\ last.method = "DELETE"
    /\ last.path = "/mcp"
    /\ last.sid = NoHeader
    /\ last.status = 405
    /\ DOMAIN sessions # {}

\* C10: every GET /health is answered with status 200, whatever the
\* registry holds.
C10_HealthIs200 ==
    (last.method = "GET" /\ last.path = "/health") => last.status = 200

----------------------------------------------------------------------------
\* Properties of the dispatcher and the resource client (SpecTool)

IsTextItem(x) == DOMAIN x = {"type", "text"} /\ x.type = "text"

\* A content list of text items.
IsEnvelope(v) ==
    /\ DOMAIN v = {"content"}
    /\ \A i \in DOMAIN v.content : IsTextItem(v.content[i])

TextOf(v) == v.content[1].text

Contains(text, piece) == \E i \in DOMAIN text : text[i] = piece

\* An envelope built by getErrorMessage.
IsErrorEnvelope(v) ==
    /\ IsEnvelope(v)
    /\ Len(v.content) = 1
    /\ Len(TextOf(v)) > 0
    /\ TextOf(v)[1] \in {"Error fetching data: ", "An unknown error occurred."}

ValidTargets == {"service", "node", "policy"}

\* The calls a run of toolCallback makes, and its result once outcome has
\* arrived, from the step it takes up to its first await.
CallsOf(step) == IF step.kind = "fetch" THEN <<step.url>> ELSE << >>
ResultOf(step, outcome) ==
    IF step.kind = "fetch" THEN AfterFetch(step.fn, makeHttpRequest(outcome))
    ELSE step.value

\* The endpoint template of the calls made: the URL with the name's place
\* left open, or "none".
Category(calls, name) ==
    IF calls = << >> THEN <<"none">>
    ELSE [i \in DOMAIN calls[1] |->
            IF Truthy(name) /\ calls[1][i] = name THEN "{name}" ELSE calls[1][i]]

C12_TargetCoercedForEveryAction ==
    /\ \A t \in Targets, pt \in PolicyTypes :
          CoerceTarget(CoerceTarget(t, pt), pt) = CoerceTarget(t, pt)
    /\ ( /\ tool.phase \in {"awaiting", "returned"}
         /\ Truthy(tool.params.policyType)
         /\ tool.params.target \in {"service", "node"} )
       => LET asPolicy == toolCallback([tool.params EXCEPT !.target = "policy"])
          IN  /\ tool.calls = CallsOf(asPolicy)
              /\ tool.phase = "returned" =>
                    tool.result = ResultOf(asPolicy, tool.outcome)

\* C13: for each of the five actions, a call whose target is none of
\* service, node, policy, its other required parameters present, returns an
\* error envelope and makes no call to the resource client.
C13_InvalidTargetRejected ==
    ( /\ tool.params.target \in Targets \ ValidTargets
      /\ \/ tool.params.action = "list"
         \/ tool.params.action \in {"details", "delete", "status"}
               /\ Truthy(tool.params.name)
         \/ tool.params.action = "create" /\ Truthy(tool.params.data) )
    => ( /\ tool.phase = "returned"
         /\ IsErrorEnvelope(tool.result)
         /\ tool.calls = << >> )

\* C14: no call of the dispatcher or of the resource client ends by
\* raising: whatever the input and the remote outcome, a started call is
\* waiting for its fetch or has returned a response value.
C14_NeverRaises ==
    tool.phase # "threw"

\* C15: after a non-2xx answer of the remote API the value returned is an
\* error envelope whose message contains the status code and status text.
C15_StatusInMessage ==
    ( tool.phase = "returned" /\ tool.outcome.kind = "status" )
    => ( /\ IsErrorEnvelope(tool.result)
         /\ Contains(TextOf(tool.result), tool.outcome.status)
         /\ Contains(TextOf(tool.result), tool.outcome.statusText) )

\* C16: every call that returns, returns a content list of text items,
\* never the bare remote JSON.
C16_AlwaysEnvelope ==
    tool.phase = "returned" => IsEnvelope(tool.result)

\* C17: list makes exactly one call: for node or service the collection of
\* that plural; for policy with subtype node and a name the node-policy
\* lookup of that name; for policy in every other case the policy collection.
C17_ListRouting ==
    ( /\ tool.phase \in {"awaiting", "returned"}
      /\ tool.params.action = "list" )
    => LET p == tool.params IN
       /\ p.target = "node" => tool.calls = << <<EXCHANGE_URL, ORG, "nodes">> >>
       /\ p.target = "service" => tool.calls = << <<EXCHANGE_URL, ORG, "services">> >>
       /\ (p.target = "policy" /\ p.policyType = "node" /\ Truthy(p.name)) =>
             tool.calls = << <<EXCHANGE_URL, ORG, "business", "policies", "nodes",
                               p.name, "policy">> >>
       /\ (p.target = "policy" /\ ~(p.policyType = "node" /\ Truthy(p.name))) =>
             tool.calls = << <<EXCHANGE_URL, ORG, "business", "policies">> >>

\* C18: details with a name: target service looks the service up by name;
\* target node fetches the node-details collection, the same for every
\* name; subtype node fetches the node policy by name, also when the target
\* supplied is node; subtype service the policy by name; subtype deployment
\* the service policy by name.
C18_DetailsRouting ==
    ( /\ tool.phase \in {"awaiting", "returned", "threw"}
      /\ tool.params.action = "details"
      /\ Truthy(tool.params.name) )
    => LET p == tool.params IN
       /\ (p.policyType = Undefined /\ p.target = "service") =>
             tool.calls = << <<EXCHANGE_URL, ORG, "services", p.name>> >>
       /\ (p.policyType = Undefined /\ p.target = "node") =>
             tool.calls = << <<EXCHANGE_URL, ORG, "node-details">> >>
       /\ p.policyType = "node" =>
             tool.calls = << <<EXCHANGE_URL, ORG, "nodes", p.name, "policy">> >>
       /\ p.policyType = "service" =>
             tool.calls = << <<EXCHANGE_URL, ORG, "business", "policies", p.name>> >>
       /\ p.policyType = "deployment" =>
             tool.calls = << <<EXCHANGE_URL, ORG, "services", p.name, "policy">> >>

C18_Witness ==
    /\ tool.phase = "returned"
    /\ tool.params.action = "details"
    /\ tool.params.target = "node"
    /\ tool.params.policyType = "node"
    /\ tool.params.name = "edge-1"
    /\ tool.outcome.kind = "ok"

\* C19: status of a node with a name calls the node-status endpoint of that
\* name and nothing else; status of a service or a policy, and every create
\* and delete that passes validation, call nothing and return a literal
\* placeholder text.
C19_StatusAndPlaceholders ==
    LET p == tool.params IN
    /\ (p.action = "status" /\ p.target = "node" /\ Truthy(p.name)) =>
          /\ tool.phase \in {"awaiting", "returned"}
          /\ tool.calls = << <<EXCHANGE_URL, ORG, "nodes", p.name, "status">> >>
    /\ (p.action = "status" /\ p.target \in {"service", "policy"} /\ Truthy(p.name)) =>
          /\ tool.phase = "returned"
          /\ tool.calls = << >>
          /\ tool.result = Envelope(<<"Status for ", p.target, " named ", p.name>>)
    /\ (p.action = "create" /\ Truthy(p.data)) =>
          /\ tool.phase = "returned"
          /\ tool.calls = << >>
          /\ tool.result = Envelope(<<"Created ", p.target, " with provided data">>)
    /\ (p.action = "delete" /\ Truthy(p.name)) =>
          /\ tool.phase = "returned"
          /\ tool.calls = << >>
          /\ tool.result = Envelope(<<"Deleted ", p.target, " named ", p.name>>)

C19_Witness ==
    /\ tool.phase = "returned"
    /\ tool.params.action = "status"
    /\ tool.params.target = "policy"
    /\ tool.params.name = "edge-2"

\* C20 as stated: the endpoint category of a call is the one of every call
\* with the same action, target and policy subtype, whatever name and data.
C20_CategoryOfTripleAlone ==
    tool.phase \in {"awaiting", "returned", "threw"} =>
        \A n \in Names, d \in Datas :
            Category(CallsOf(toolCallback([tool.params EXCEPT !.name = n, !.data = d])), n)
                = Category(tool.calls, tool.params.name)

\* C20 as amended: the endpoint category of a call, after any earlier
\* calls, is the one of every call with the same action, target and policy
\* subtype that also agrees on whether a name is present, whatever the name
\* and the data.
C20_CategoryOfTripleAndNamePresence ==
    tool.phase \in {"awaiting", "returned", "threw"} =>
        \A n \in Names, d \in Datas :
            Truthy(n) = Truthy(tool.params.name) =>
                Category(CallsOf(toolCallback([tool.params EXCEPT !.name = n, !.data = d])), n)
                    = Category(tool.calls, tool.params.name)

C20_Witness ==
    /\ tool.phase = "returned"
    /\ tool.params.action = "list"
    /\ tool.params.target = "policy"
    /\ tool.params.policyType = "node"
    /\ tool.params.name = "edge-2"
    /\ tool.calls # << >>

----------------------------------------------------------------------------
\* Properties of the registry under concurrent initiation and closure (Spec)

\* C21: the entries assigned under one identifier, by the explicit
\* assignment after connect and by the session-initialized callback, are
\* equal in every field, so the entry stored does not depend on which of
\* the two assignments came last.
C21_BothWritesIdentical ==
    \A k \in DOMAIN writes :
        \A e1, e2 \in writes[k] : e1 = e2

\* C22: at every registry lookup that finds an entry under identifier k
\* (the lookup of a POST naming k, and the read-back of an initiation), the
\* entry's protocol handler is connected to the entry's transport and the
\* transport's own session id is k at the time of the lookup.
C22_LookupFindsCompleteEntry ==
    [][ ( /\ IsExchangeStep
          /\ last'.method = "POST"
          /\ last'.by = "transport" )
        => LET t == last'.transport
               k == IF last'.handler # 0
                    THEN handlers[last'.handler].newSessionId
                    ELSE last'.sid
           IN  /\ servers[t].transport = t
               /\ transports[t].sessionId = k ]_vars

\* C23: an identifier whose entry was removed from the registry (it has
\* been assigned and is no longer a key, which only the closure of its
\* transport brings about) is not a key after any later step, and a request
\* naming it is answered by the router with 400 or 405 and reaches no
\* transport.
C23_ClosedIdNeverReturns ==
    [][ \A k \in DOMAIN writes \ DOMAIN sessions :
            /\ k \notin DOMAIN sessions'
            /\ (IsExchangeStep /\ last'.sid = k) =>
                  /\ last'.by = "router"
                  /\ last'.status \in {400, 405}
                  /\ last'.transport = 0 ]_vars

C23_Witness ==
    /\ Len(handlers) = 2
    /\ handlers[2].pc = "done"
    /\ handlers[2].newSessionId \in DOMAIN sessions
    /\ handlers[1].newSessionId \in DOMAIN writes \ DOMAIN sessions
    /\ transports[1].closed
    /\ last.method = "POST"
    /\ last.sid = handlers[1].newSessionId
    /\ last.status = 400

----------------------------------------------------------------------------
\* Further properties of the dispatcher and the resource client (SpecTool)

\* C24: for action list, after a 2xx answer with a JSON body the value
\* returned is an envelope whose single text item is the serialization of
\* that body, also when the body has a top-level content field.
C24_ListWrapsEveryBody ==
    ( /\ tool.phase = "returned"
      /\ tool.params.action = "list"
      /\ tool.outcome.kind = "ok" )
    => tool.result = Envelope(<<Stringify(tool.outcome.body)>>)

\* C25: in list, details and status of a node, when the resource client
\* returns an error envelope the dispatcher returns that envelope unchanged.
C25_ErrorEnvelopePropagated ==
    ( /\ tool.phase = "returned"
      /\ tool.outcome.kind \in {"status", "badjson", "failed"} )
    => ( /\ tool.params.action \in {"list", "details", "status"}
         /\ IsErrorEnvelope(makeHttpRequest(tool.outcome))
         /\ tool.result = makeHttpRequest(tool.outcome) )

C25_Witness ==
    /\ tool.phase = "returned"
    /\ tool.params.action = "list"
    /\ tool.params.target = "policy"
    /\ tool.outcome.kind = "status"
    /\ IsErrorEnvelope(tool.result)

\* C26: one dispatcher call makes at most one call to the resource client,
\* and one call to the resource client issues exactly one outbound request,
\* whether it succeeds, answers non-2xx or fails at transport level.
C26_NothingRetried ==
    /\ Len(tool.calls) <= 1
    /\ tool.fetches = tool.calls
    /\ tool.phase = "awaiting" => Len(tool.calls) = 1
    /\ tool.outcome # NoOutcome =>
          /\ tool.phase = "returned"
          /\ Len(tool.fetches) = 1

C26_Witness ==
    /\ tool.phase = "returned"
    /\ tool.params.action = "details"
    /\ tool.outcome.kind = "failed"
    /\ Len(tool.fetches) = 1

\* C27: create without a name returns an error envelope and makes no call,
\* also when data is present.
C27_CreateRequiresName ==
    ( /\ tool.phase \in {"awaiting", "returned", "threw"}
      /\ tool.params.action = "create"
      /\ ~Truthy(tool.params.name)
      /\ Truthy(tool.params.data) )
    => ( /\ tool.phase = "returned"
         /\ IsErrorEnvelope(tool.result)
         /\ tool.calls = << >> )

\* C28: once an initiation whose initialize request the transport refused
\* has finished, the registry has no entry under the identifier generated
\* for it; the registry never has more entries than there are sessions the
\* transport accepted and that have not closed.
C28_NoEntryForRefusedInitiation ==
    /\ \A i \in DOMAIN handlers :
          (handlers[i].pc = "done" /\ ~transports[i].initialized)
              => handlers[i].newSessionId \notin DOMAIN sessions
    /\ Cardinality(DOMAIN sessions) <=
          Cardinality({i \in DOMAIN transports :
                          transports[i].initialized /\ ~transports[i].closed})

====
